---------------------------- MODULE Spec2Model ----------------------------
(***************************************************************************)
(* Model of the license-plate scanning screen (ScanLicensePlateScreen.js)  *)
(* and of its TFLite helper module (imported as ./TfliteUtils).            *)
(*                                                                         *)
(* Three groups of state, each with its own specification:                 *)
(*   Spec / FairSpec : the screen's capture / gallery / process cycles and  *)
(*                     the module-level model cache;                        *)
(*   SpecDecode      : processOutput and the bestPlate reduce, applied to   *)
(*                     raw output arrays;                                   *)
(*   SpecImage       : resizeNearestNeighbor and base64ToTensor, applied to *)
(*                     decoded images.                                      *)
(*                                                                         *)
(* Numbers of the raw output array are fixed-point with one decimal digit: *)
(* the integer n stands for the JavaScript number n/10 (Fix turns a whole   *)
(* number into that unit), so 0.5 is 5 and the detection cap 10 is Fix(10). *)
(***************************************************************************)
EXTENDS Integers, Sequences, FiniteSets, TLC

VARIABLES
    \* ---- the screen (React state, ref, and the async invocations) ----
    isProcessing,     \* useState(false)
    isCapturing,      \* useState(false)
    capturedImage,    \* useState(null)
    licensePlate,     \* useState('')
    stateCode,        \* useState('')
    cameraCurrent,    \* camera.current is set (the Camera is mounted)
    pc,               \* invocation -> where the async handler is suspended
    handler,          \* invocation -> "captureImage" | "selectImage" | "none"
    m,                \* invocation -> the model instance runInferenceOnImage got
    alert,            \* invocation -> the Alert.alert call it made
    nav,              \* invocation -> the navigation.navigate call it made
    outputs,          \* invocation -> what `await runInferenceOnImage` returned
    \* ---- the TFLite helper module ----
    model,            \* let model = null
    loadCalls,        \* number of loadTensorflowModel invocations so far
    \* ---- decoder harness ----
    output,           \* the raw output array handed to processOutput
    rnd,              \* the values Math.random yields, per slot
    decoded,          \* the result of processOutput (plates and loop counter)
    best,             \* the result of the bestPlate reduce
    dpc,              \* "input" | "decoded" | "selected" | "none"
    \* ---- image harness ----
    img,              \* the decoded image {width, height, data}
    targetW, targetH, \* the target dimensions
    resized,          \* the result of resizeNearestNeighbor
    tensor,           \* the result of base64ToTensor
    ipc               \* which of the two calls have been made

screenVars == <<isProcessing, isCapturing, capturedImage, licensePlate, stateCode,
                cameraCurrent, pc, handler, m, alert, nav, outputs, model, loadCalls>>
decodeVars == <<output, rnd, decoded, best, dpc>>
imageVars  == <<img, targetW, targetH, resized, tensor, ipc>>
vars == <<screenVars, decodeVars, imageVars>>

----------------------------------------------------------------------------
(* Bounds of the model *)

\* number of handler invocations (button presses) in one behaviour
MaxCalls == 2
\* largest number of 6-number records stored in a generated output array
MaxSlots == 11
\* number of leading records whose confidences vary independently
VariedSlots == 2
\* largest source width / height of a generated image
MaxDim == 3
\* largest target width / height
MaxTarget == 3

----------------------------------------------------------------------------
(* JavaScript values and operators used by the decoder *)

Fix(n) == n * 10

Num(n) == [kind |-> "number", val |-> n]
Undefined == [kind |-> "undefined", val |-> 0]
NaN == [kind |-> "NaN", val |-> 0]

\* output[i]: an index outside the array reads undefined
At(arr, i) == IF i >= 0 /\ i < Len(arr) THEN Num(arr[i + 1]) ELSE Undefined

\* a > b: undefined and NaN convert to NaN, and every comparison with NaN is false
JSGreater(a, b) == a.kind = "number" /\ b.kind = "number" /\ a.val > b.val

JSLess(a, b) == a.kind = "number" /\ b.kind = "number" /\ a.val < b.val

\* Math.min(a, b): NaN when either argument is not a number
MathMin(a, b) ==
    IF a.kind # "number" \/ b.kind # "number" THEN NaN
    ELSE IF a.val < b.val THEN a ELSE b

\* const CONFIDENCE_THRESHOLD = 0.5
CONFIDENCE_THRESHOLD == 5

\* the literal 10 of Math.min(output[0], 10)
MaxDetections == 10

----------------------------------------------------------------------------
(* The placeholder plate text: `KA${floor(random*100)}AB${floor(random*10000)}` *)

DigitChar(d) == <<"0", "1", "2", "3", "4", "5", "6", "7", "8", "9">>[d + 1]

RECURSIVE Digits(_)
Digits(n) == IF n < 10 THEN <<DigitChar(n)>>
             ELSE Digits(n \div 10) \o <<DigitChar(n % 10)>>

PlateText(r) == <<"K", "A">> \o Digits(r[1]) \o <<"A", "B">> \o Digits(r[2])

----------------------------------------------------------------------------
(* processOutput *)

\* variant: the comparison written as >=
MutPassesThreshold(confidence) == ~JSLess(confidence, Num(CONFIDENCE_THRESHOLD))

\* if (confidence > CONFIDENCE_THRESHOLD)
PassesThreshold(confidence) == JSGreater(confidence, Num(CONFIDENCE_THRESHOLD))

\* variant: the count taken as it is, without the cap
MutNumDetections(out) == At(out, 0)

\* const numDetections = Math.min(output[0], 10)
NumDetections(out) == MathMin(At(out, 0), Num(Fix(MaxDetections)))

\* variant: a stride of 5 numbers per record
MutBaseIndex(i) == 1 + i * 5

\* const baseIndex = 1 + i * 6
BaseIndex(i) == 1 + i * 6

\* the record pushed for slot i
PlateRecord(out, i, r) ==
    [confidence |-> At(out, BaseIndex(i) + 4),
     bbox |-> [x1 |-> At(out, BaseIndex(i)),
               y1 |-> At(out, BaseIndex(i) + 1),
               x2 |-> At(out, BaseIndex(i) + 2),
               y2 |-> At(out, BaseIndex(i) + 3)],
     text |-> PlateText(r[i])]

\* for (let i = 0; i < numDetections; i++) { ... }: the plates pushed and the
\* value of i when the loop ends
RECURSIVE OutputLoop(_, _, _, _)
OutputLoop(out, r, i, plates) ==
    IF ~JSLess(Num(Fix(i)), NumDetections(out)) THEN [plates |-> plates, i |-> i]
    ELSE OutputLoop(out, r, i + 1,
                    IF PassesThreshold(At(out, BaseIndex(i) + 4))
                    THEN Append(plates, PlateRecord(out, i, r))
                    ELSE plates)

processOutput(out, r) == OutputLoop(out, r, 0, <<>>)

----------------------------------------------------------------------------
(* processImage, from the inference result on *)

\* variant: the comparison written as >=, which keeps the earlier of two equals
MutReduceStep(prev, current) ==
    IF ~JSLess(prev.confidence, current.confidence) THEN prev ELSE current

\* (prev, current) => (prev.confidence > current.confidence) ? prev : current
ReduceStep(prev, current) ==
    IF JSGreater(prev.confidence, current.confidence) THEN prev ELSE current

\* plates.reduce(f) with no initial value: starts from plates[0]
RECURSIVE ReduceFrom(_, _, _)
ReduceFrom(plates, k, acc) ==
    IF k > Len(plates) THEN acc
    ELSE ReduceFrom(plates, k + 1, ReduceStep(acc, plates[k]))

BestPlate(plates) == ReduceFrom(plates, 2, plates[1])

IsWhitespace(ch) == ch \in {" ", "\t", "\n", "\r"}

\* text.replace(/\s/g, '')
StripWhitespace(text) == SelectSeq(text, LAMBDA ch : ~IsWhitespace(ch))

\* s.substring(0, 2)
Substring02(s) == SubSeq(s, 1, IF Len(s) < 2 THEN Len(s) ELSE 2)

----------------------------------------------------------------------------
(* resizeNearestNeighbor *)

\* newData is a zero-filled Uint8Array: a number stored into it wraps modulo 256,
\* undefined is stored as 0, and a store outside the array is ignored.

\* variant: the quotient rounded up
MutSrcCoord(d, oldDim, newDim) == (d * oldDim + newDim - 1) \div newDim

\* Math.floor(y * oldH / newH), Math.floor(x * oldW / newW)
SrcCoord(d, oldDim, newDim) == (d * oldDim) \div newDim

\* variant: row and column swapped
MutSrcIdx(srcX, srcY, oldW) == (srcY + srcX * oldW) * 4

\* const srcIdx = (srcY * oldW + srcX) * 4
SrcIdx(srcX, srcY, oldW) == (srcY * oldW + srcX) * 4

\* const dstIdx = (y * newW + x) * 4
DstIdx(x, y, newW) == (y * newW + x) * 4

\* the largest element of a non-empty finite set of integers
MaxOf(S) == CHOOSE a \in S : \A b \in S : b <= a

\* The two nested loops (y outer, x inner) with the four channel copies
\*     newData[dstIdx + ch] = oldData[srcIdx + ch]
\* of each pixel.  Element p of the result holds what the last store to index p
\* left there, and 0 when the loops never store to p; n = y * newW + x is the
\* position of iteration (x, y) in the order of execution.
ResizeLoop(image, newW, newH) ==
    [p \in 1..(newW * newH * 4) |->
        LET stores == {s \in (0..(newW * newH - 1)) \X (0..3) :
                          DstIdx(s[1] % newW, s[1] \div newW, newW) + s[2] = p - 1}
        IN  IF stores = {} THEN 0
            ELSE LET last == MaxOf({s[1] * 4 + s[2] : s \in stores})
                     n == last \div 4
                     ch == last % 4
                     srcY == SrcCoord(n \div newW, image.height, newH)
                     srcX == SrcCoord(n % newW, image.width, newW)
                     v == At(image.data, SrcIdx(srcX, srcY, image.width) + ch)
                 IN  IF v.kind = "number" THEN v.val % 256 ELSE 0]

resizeNearestNeighbor(image, newW, newH) ==
    [width |-> newW, height |-> newH, data |-> ResizeLoop(image, newW, newH)]

----------------------------------------------------------------------------
(* base64ToTensor, from the decoded image on.  A tensor element is the      *)
(* rational num/den; the rounding of the quotient to 32-bit floating point  *)
(* is not modelled.                                                         *)

F32Zero == [kind |-> "number", num |-> 0, den |-> 1]

F32NaN == [kind |-> "NaN", num |-> 0, den |-> 1]

\* rgba[...] / 255.0
Div255(v) ==
    IF v.kind = "number" THEN [kind |-> "number", num |-> v.val, den |-> 255]
    ELSE F32NaN

\* variant: the source read with the tensor's stride of 3
MutRgbaIndex(i, ch) == i * 3 + ch

\* rgba[i * 4 + ch]
RgbaIndex(i, ch) == i * 4 + ch

\* for (let i = 0; i < targetW * targetH; i++)
\*     tensor[i * 3 + ch] = rgba[i * 4 + ch] / 255.0     (ch = 0, 1, 2)
\* Element p of the result holds what the last store to index p left there,
\* and the initial 0 when the loop never stores to p.
TensorLoop(rgba, count) ==
    [p \in 1..(count * 3) |->
        LET stores == {s \in (0..(count - 1)) \X (0..2) : s[1] * 3 + s[2] = p - 1}
        IN  IF stores = {} THEN F32Zero
            ELSE LET last == MaxOf({s[1] * 3 + s[2] : s \in stores})
                 IN  Div255(At(rgba, RgbaIndex(last \div 3, last % 3)))]

\* `raw` is what jpeg.decode returns for the base64 payload
base64ToTensor(raw, tW, tH) ==
    TensorLoop(resizeNearestNeighbor(raw, tW, tH).data, tW * tH)

----------------------------------------------------------------------------
(* The screen: React state and the async handlers.                          *)
(*                                                                          *)
(* Each button press is one invocation of captureImage or selectImage.  An  *)
(* action is the code a handler runs between two awaits of a native call    *)
(* (takePhoto, launchImageLibrary, loadTensorflowModel, RNFS.readFile,      *)
(* model.run): the promise continuations in between are microtasks, which   *)
(* no press and no native completion can interleave with.  A press handler  *)
(* reads the state of the latest render; updates made in a press handler    *)
(* are rendered before the next press is delivered.                         *)

Calls == 1..MaxCalls

NoImage == <<"null", 0>>
PhotoPath(c) == <<"photo.path", c>>
AssetUri(c) == <<"assets[0].uri", c>>

NoModel == 0
NoAlert == [title |-> "", message |-> ""]
NoNav == [screen |-> "", licensePlate |-> <<>>, stateCode |-> <<>>]
NoOutputs == [settled |-> FALSE, value |-> <<>>]

\* the messages a rejected model.run can carry ("" : an error with no message)
ErrorMessages == {"", "run error"}

\* error.message || 'Could not detect license plate. Try again or enter manually.'
MessageOrFallback(msg) ==
    IF msg = "" THEN "Could not detect license plate. Try again or enter manually."
    ELSE msg

\* the next press is invocation c
IsNextCall(c) == pc[c] = "idle" /\ \A d \in Calls : d < c => pc[d] # "idle"

InFlightPcs == {"takePhoto", "picker", "loadModel", "readFile", "run"}

\* if (isCapturing || isProcessing || !camera.current) return;
CaptureGuard == isCapturing \/ isProcessing \/ ~cameraCurrent

\* if (isProcessing || isCapturing) return;
SelectGuard == isProcessing \/ isCapturing

\* variant: processImage without its finally block
MutProcessingAfterFinally == isProcessing

\* processImage's finally: setIsProcessing(false)
ProcessingAfterFinally == FALSE

\* captureImage's finally: setIsCapturing(false); selectImage has none
CapturingAfterHandler(c) == IF handler[c] = "captureImage" THEN FALSE ELSE isCapturing

unchangedHarness == UNCHANGED <<decodeVars, imageVars>>

\* processImage(uri) up to its first native await, inside runInferenceOnImage:
\* loadModelIfNeeded either starts a load or returns the cached model, and in
\* the second case RNFS.readFile is the call awaited
EnterProcessImage(c) ==
    /\ isProcessing' = TRUE
    /\ IF model = NoModel
       THEN /\ loadCalls' = loadCalls + 1
            /\ pc' = [pc EXCEPT ![c] = "loadModel"]
            /\ m' = m
       ELSE /\ loadCalls' = loadCalls
            /\ pc' = [pc EXCEPT ![c] = "readFile"]
            /\ m' = [m EXCEPT ![c] = model]

\* processImage's catch and finally, then the rest of the handler
ProcessImageFails(c, msg) ==
    /\ alert' = [alert EXCEPT ![c] =
                   [title |-> "Processing Failed", message |-> MessageOrFallback(msg)]]
    /\ isProcessing' = ProcessingAfterFinally
    /\ isCapturing' = CapturingAfterHandler(c)
    /\ pc' = [pc EXCEPT ![c] = "done"]

captureImage(c) ==
    /\ IsNextCall(c)
    /\ handler' = [handler EXCEPT ![c] = "captureImage"]
    /\ IF CaptureGuard
       THEN /\ pc' = [pc EXCEPT ![c] = "returned"]
            /\ UNCHANGED isCapturing
       ELSE /\ isCapturing' = TRUE
            /\ pc' = [pc EXCEPT ![c] = "takePhoto"]
    /\ UNCHANGED <<isProcessing, capturedImage, licensePlate, stateCode, cameraCurrent,
                   m, alert, nav, outputs, model, loadCalls>>
    /\ unchangedHarness

TakePhotoResolves(c) ==
    /\ pc[c] = "takePhoto"
    /\ capturedImage' = PhotoPath(c)
    /\ EnterProcessImage(c)
    /\ UNCHANGED <<isCapturing, licensePlate, stateCode, cameraCurrent, handler,
                   alert, nav, outputs, model>>
    /\ unchangedHarness

TakePhotoRejects(c) ==
    /\ pc[c] = "takePhoto"
    /\ alert' = [alert EXCEPT ![c] =
                   [title |-> "Capture Failed", message |-> "Please try again."]]
    /\ isCapturing' = CapturingAfterHandler(c)
    /\ pc' = [pc EXCEPT ![c] = "done"]
    /\ UNCHANGED <<isProcessing, capturedImage, licensePlate, stateCode, cameraCurrent,
                   handler, m, nav, outputs, model, loadCalls>>
    /\ unchangedHarness

selectImage(c) ==
    /\ IsNextCall(c)
    /\ handler' = [handler EXCEPT ![c] = "selectImage"]
    /\ pc' = [pc EXCEPT ![c] = IF SelectGuard THEN "returned" ELSE "picker"]
    /\ UNCHANGED <<isProcessing, isCapturing, capturedImage, licensePlate, stateCode,
                   cameraCurrent, m, alert, nav, outputs, model, loadCalls>>
    /\ unchangedHarness

\* the picker resolves with an asset that has a uri
PickerResolvesWithAsset(c) ==
    /\ pc[c] = "picker"
    /\ capturedImage' = AssetUri(c)
    /\ EnterProcessImage(c)
    /\ UNCHANGED <<isCapturing, licensePlate, stateCode, cameraCurrent, handler,
                   alert, nav, outputs, model>>
    /\ unchangedHarness

\* the picker resolves with no asset (the user cancelled): nothing is done
PickerResolvesEmpty(c) ==
    /\ pc[c] = "picker"
    /\ pc' = [pc EXCEPT ![c] = "cancelled"]
    /\ UNCHANGED <<isProcessing, isCapturing, capturedImage, licensePlate, stateCode,
                   cameraCurrent, handler, m, alert, nav, outputs, model, loadCalls>>
    /\ unchangedHarness

PickerRejects(c) ==
    /\ pc[c] = "picker"
    /\ alert' = [alert EXCEPT ![c] =
                   [title |-> "Gallery Error", message |-> "Failed to select image"]]
    /\ pc' = [pc EXCEPT ![c] = "done"]
    /\ UNCHANGED <<isProcessing, isCapturing, capturedImage, licensePlate, stateCode,
                   cameraCurrent, handler, m, nav, outputs, model, loadCalls>>
    /\ unchangedHarness

LoadResolves(c) ==
    /\ pc[c] = "loadModel"
    /\ model' = c                         \* the instance this load created
    /\ m' = [m EXCEPT ![c] = c]           \* return model
    /\ pc' = [pc EXCEPT ![c] = "readFile"]
    /\ UNCHANGED <<isProcessing, isCapturing, capturedImage, licensePlate, stateCode,
                   cameraCurrent, handler, alert, nav, outputs, loadCalls>>
    /\ unchangedHarness

LoadRejects(c) ==
    /\ pc[c] = "loadModel"
    /\ ProcessImageFails(c, "loadTensorflowModel error")
    /\ UNCHANGED <<capturedImage, licensePlate, stateCode, cameraCurrent, handler,
                   m, nav, outputs, model, loadCalls>>
    /\ unchangedHarness

\* RNFS.readFile resolves; base64ToTensor then returns a tensor (decodable) or
\* throws because the payload is no JPEG
ReadFileResolves(c) ==
    /\ pc[c] = "readFile"
    /\ \E decodable \in BOOLEAN :
          IF decodable
          THEN /\ pc' = [pc EXCEPT ![c] = "run"]
               /\ UNCHANGED <<isProcessing, isCapturing, alert>>
          ELSE ProcessImageFails(c, "jpeg.decode error")
    /\ UNCHANGED <<capturedImage, licensePlate, stateCode, cameraCurrent, handler,
                   m, nav, outputs, model, loadCalls>>
    /\ unchangedHarness

ReadFileRejects(c) ==
    /\ pc[c] = "readFile"
    /\ ProcessImageFails(c, "readFile error")
    /\ UNCHANGED <<capturedImage, licensePlate, stateCode, cameraCurrent, handler,
                   m, nav, outputs, model, loadCalls>>
    /\ unchangedHarness

\* one 6-number record of a generated output array
SlotRecord(i, conf) == <<Fix(i) + 1, Fix(i) + 2, Fix(i) + 3, Fix(i) + 4, conf, 0>>

RECURSIVE SlotRecords(_, _)
SlotRecords(confs, k) ==
    IF k > Len(confs) THEN <<>>
    ELSE SlotRecord(k - 1, confs[k]) \o SlotRecords(confs, k + 1)

\* the array <<count, record 0, record 1, ...>>
MakeOutput(count, confs) == <<count>> \o SlotRecords(confs, 1)

\* what Math.random yields for the record of each slot an array can hold
RandStreams ==
    {[i \in 0..MaxSlots |-> <<(i * 37 + 5) % 100, (i * 1234 + 99) % 10000>>],
     [i \in 0..MaxSlots |-> <<99 - i, 9999>>]}

\* what model.run can resolve with on the screen: no output tensor at all, or
\* one output array
ScreenOutputs ==
    {<<>>, <<MakeOutput(0, <<9>>)>>}
    \cup {<<MakeOutput(Fix(Len(cs)), cs)>> : cs \in {<<5>>, <<6, 9>>}}

\* model.run resolves: the rest of processImage
RunResolves(c) ==
    /\ pc[c] = "run"
    /\ \E outs \in ScreenOutputs, r \in RandStreams :
          /\ outputs' = [outputs EXCEPT ![c] = [settled |-> TRUE, value |-> outs]]
          /\ IF Len(outs) = 0
             THEN \* outputs[0] is undefined and processOutput reads output[0] of it
                  /\ ProcessImageFails(c, "TypeError")
                  /\ UNCHANGED <<licensePlate, stateCode, nav>>
             ELSE LET plates == processOutput(outs[1], r).plates IN
                  IF Len(plates) = 0
                  THEN /\ ProcessImageFails(c, "No license plates detected")
                       /\ UNCHANGED <<licensePlate, stateCode, nav>>
                  ELSE LET bestPlate == BestPlate(plates)
                           plateText == StripWhitespace(bestPlate.text)
                           detectedStateCode == Substring02(plateText)
                       IN  /\ licensePlate' = plateText
                           /\ stateCode' = detectedStateCode
                           /\ nav' = [nav EXCEPT ![c] =
                                        [screen |-> "AddCar",
                                         licensePlate |-> plateText,
                                         stateCode |-> detectedStateCode]]
                           /\ isProcessing' = ProcessingAfterFinally
                           /\ isCapturing' = CapturingAfterHandler(c)
                           /\ pc' = [pc EXCEPT ![c] = "done"]
                           /\ UNCHANGED alert
    /\ UNCHANGED <<capturedImage, cameraCurrent, handler, m, model, loadCalls>>
    /\ unchangedHarness

RunRejects(c) ==
    /\ pc[c] = "run"
    /\ \E msg \in ErrorMessages : ProcessImageFails(c, msg)
    /\ UNCHANGED <<capturedImage, licensePlate, stateCode, cameraCurrent, handler,
                   m, nav, outputs, model, loadCalls>>
    /\ unchangedHarness

\* the harness variables when a specification does not use them
DecodeUnused ==
    /\ output = <<>>
    /\ rnd = <<>>
    /\ decoded = [plates |-> <<>>, i |-> 0]
    /\ best = <<>>
    /\ dpc = "unused"

ImageUnused ==
    /\ img = [width |-> 0, height |-> 0, data |-> <<>>]
    /\ targetW = 0
    /\ targetH = 0
    /\ resized = [width |-> 0, height |-> 0, data |-> <<>>]
    /\ tensor = <<>>
    /\ ipc = "unused"

ScreenUnused ==
    /\ isProcessing = FALSE
    /\ isCapturing = FALSE
    /\ capturedImage = NoImage
    /\ licensePlate = <<>>
    /\ stateCode = <<>>
    /\ cameraCurrent = FALSE
    /\ pc = [c \in Calls |-> "idle"]
    /\ handler = [c \in Calls |-> "none"]
    /\ m = [c \in Calls |-> NoModel]
    /\ alert = [c \in Calls |-> NoAlert]
    /\ nav = [c \in Calls |-> NoNav]
    /\ outputs = [c \in Calls |-> NoOutputs]
    /\ model = NoModel
    /\ loadCalls = 0

Init ==
    /\ isProcessing = FALSE
    /\ isCapturing = FALSE
    /\ capturedImage = NoImage
    /\ licensePlate = <<>>
    /\ stateCode = <<>>
    /\ cameraCurrent \in BOOLEAN
    /\ pc = [c \in Calls |-> "idle"]
    /\ handler = [c \in Calls |-> "none"]
    /\ m = [c \in Calls |-> NoModel]
    /\ alert = [c \in Calls |-> NoAlert]
    /\ nav = [c \in Calls |-> NoNav]
    /\ outputs = [c \in Calls |-> NoOutputs]
    /\ model = NoModel
    /\ loadCalls = 0
    /\ DecodeUnused
    /\ ImageUnused

\* a native call of invocation c settles
Settles(c) ==
    \/ TakePhotoResolves(c)
    \/ TakePhotoRejects(c)
    \/ PickerResolvesWithAsset(c)
    \/ PickerResolvesEmpty(c)
    \/ PickerRejects(c)
    \/ LoadResolves(c)
    \/ LoadRejects(c)
    \/ ReadFileResolves(c)
    \/ ReadFileRejects(c)
    \/ RunResolves(c)
    \/ RunRejects(c)

Next ==
    \E c \in Calls :
        \/ captureImage(c)
        \/ selectImage(c)
        \/ TakePhotoResolves(c)
        \/ TakePhotoRejects(c)
        \/ PickerResolvesWithAsset(c)
        \/ PickerResolvesEmpty(c)
        \/ PickerRejects(c)
        \/ LoadResolves(c)
        \/ LoadRejects(c)
        \/ ReadFileResolves(c)
        \/ ReadFileRejects(c)
        \/ RunResolves(c)
        \/ RunRejects(c)

Spec == Init /\ [][Next]_vars

\* every awaited native call eventually settles
FairSpec == Spec /\ \A c \in Calls : WF_vars(Settles(c))

----------------------------------------------------------------------------
(* Decoder harness: processOutput and the reduce applied to generated arrays *)

Min(a, b) == IF a < b THEN a ELSE b

\* confidences of generated records: 0.3, 0.5, 0.6, 0.9
ConfValues == {3, 5, 6, 9}

\* the confidences of n records: the first VariedSlots vary independently, the
\* rest share one value (0.5, 0.6 or 0.9)
ConfChoices(n) ==
    {[k \in 1..n |-> IF k <= VariedSlots THEN p[k] ELSE t] :
        p \in [1..VariedSlots -> ConfValues], t \in ConfValues \ {3}}

\* element 0 of an array holding n records: n itself, a fractional count, a
\* count larger than what is stored, a smaller or negative one
CountChoices(n) == {Fix(n), Fix(n) + 5, Fix(n + 2), Fix(n) - 10}

\* lengths an array of n elements is cut to: whole, without the unused last
\* number, without the last confidence, without the last record, only element
\* 0, empty
CutLengths(n) == {k \in {n, n - 1, n - 2, n - 6} : k >= 0} \cup {0, 1}

OutputArrays ==
    UNION {UNION {{SubSeq(MakeOutput(count, confs), 1, k) :
                      k \in CutLengths(1 + 6 * n)} :
                  count \in CountChoices(n), confs \in ConfChoices(n)} :
           n \in 0..MaxSlots}

InitDecode ==
    /\ output \in OutputArrays
    /\ rnd \in RandStreams
    /\ decoded = [plates |-> <<>>, i |-> 0]
    /\ best = <<>>
    /\ dpc = "input"
    /\ ScreenUnused
    /\ ImageUnused

\* const plates = processOutput(outputs[0])
Decode ==
    /\ dpc = "input"
    /\ decoded' = processOutput(output, rnd)
    /\ dpc' = "decoded"
    /\ UNCHANGED <<output, rnd, best, screenVars, imageVars>>

\* if (plates.length === 0) throw new Error('No license plates detected')
ThrowNoPlates ==
    /\ dpc = "decoded"
    /\ Len(decoded.plates) = 0
    /\ dpc' = "none"
    /\ UNCHANGED <<output, rnd, decoded, best, screenVars, imageVars>>

\* const bestPlate = plates.reduce(...)
SelectBest ==
    /\ dpc = "decoded"
    /\ Len(decoded.plates) > 0
    /\ best' = <<BestPlate(decoded.plates)>>
    /\ dpc' = "selected"
    /\ UNCHANGED <<output, rnd, decoded, screenVars, imageVars>>

NextDecode == Decode \/ ThrowNoPlates \/ SelectBest

SpecDecode == InitDecode /\ [][NextDecode]_vars

----------------------------------------------------------------------------
(* Image harness: the resizer and the tensor converter applied to images *)

\* an image whose bytes follow the pattern seed, seed + step, ... modulo 256
PatternImage(w, h, seed, step) ==
    [width |-> w, height |-> h,
     data |-> [k \in 1..(w * h * 4) |-> (seed + (k - 1) * step) % 256]]

Images ==
    {PatternImage(w, h, seed, step) :
        w \in 1..MaxDim, h \in 1..MaxDim, seed \in {0, 77, 255}, step \in {0, 1, 37}}

InitImage ==
    /\ img \in Images
    /\ targetW \in 0..MaxTarget
    /\ targetH \in 0..MaxTarget
    /\ resized = [width |-> 0, height |-> 0, data |-> <<>>]
    /\ tensor = <<>>
    /\ ipc = [resized |-> FALSE, tensor |-> FALSE]
    /\ ScreenUnused
    /\ DecodeUnused

CallResize ==
    /\ ~ipc.resized
    /\ resized' = resizeNearestNeighbor(img, targetW, targetH)
    /\ ipc' = [ipc EXCEPT !.resized = TRUE]
    /\ UNCHANGED <<img, targetW, targetH, tensor, screenVars, decodeVars>>

CallBase64ToTensor ==
    /\ ~ipc.tensor
    /\ tensor' = base64ToTensor(img, targetW, targetH)
    /\ ipc' = [ipc EXCEPT !.tensor = TRUE]
    /\ UNCHANGED <<img, targetW, targetH, resized, screenVars, decodeVars>>

NextImage == CallResize \/ CallBase64ToTensor

SpecImage == InitImage /\ [][NextImage]_vars

----------------------------------------------------------------------------
(* Properties of the screen *)

InFlight(c) == pc[c] \in InFlightPcs

Idle == ~isCapturing /\ ~isProcessing

\* invocation c ran to its end without navigating (a cancelled picker and a
\* press that returned at the guard end elsewhere)
Failed(c) == pc[c] = "done" /\ nav[c] = NoNav

\* C1: at most one capture / gallery / inference cycle is in flight at a time.
C1_AtMostOneCycleInFlight == Cardinality({c \in Calls : InFlight(c)}) <= 1

\* C2: every cycle that ends in a failure has shown an alert, and from there the
\* screen eventually is idle (isCapturing and isProcessing both false), given
\* that every awaited native call eventually settles.
C2_FailureAlertsAndReturnsToIdle ==
    /\ [](\A c \in Calls : Failed(c) => alert[c] # NoAlert)
    /\ \A c \in Calls : Failed(c) ~> Idle

\* a capture cycle failed on zero detections while the flags were set, and the
\* screen is idle again
C2_Witness ==
    \E c \in Calls :
        /\ Failed(c)
        /\ handler[c] = "captureImage"
        /\ outputs[c].settled
        /\ alert[c].message = "No license plates detected"
        /\ Idle

\* the array holds a record with confidence above 0.5 in one of the slots the
\* count in element 0 (capped at 10) covers
HasDetection(out) ==
    \E i \in 0..9 :
        /\ Len(out) > 1 + i * 6 + 4
        /\ i * 10 < out[1]
        /\ out[1 + i * 6 + 4 + 1] > 5

StartsWith2(s, prefix) ==
    /\ Len(prefix) = 2
    /\ Len(s) >= 2
    /\ prefix[1] = s[1]
    /\ prefix[2] = s[2]

\* C5: processImage navigates to AddCar, with a plate text and its two-character
\* prefix, exactly when the decoder found a record with confidence above 0.5 (so
\* never for an array whose element 0 is 0); with no such record it shows the
\* Processing Failed alert with 'No license plates detected' and does not navigate.
C5_NavigatesIffDetection ==
    \A c \in Calls :
        LET decodedSome == /\ outputs[c].settled
                           /\ Len(outputs[c].value) > 0
                           /\ HasDetection(outputs[c].value[1])
            decodedNone == /\ outputs[c].settled
                           /\ Len(outputs[c].value) > 0
                           /\ ~HasDetection(outputs[c].value[1])
        IN  /\ (nav[c] # NoNav) <=> decodedSome
            /\ nav[c] # NoNav =>
                  /\ nav[c].screen = "AddCar"
                  /\ StartsWith2(nav[c].licensePlate, nav[c].stateCode)
            /\ decodedNone =>
                  /\ nav[c] = NoNav
                  /\ alert[c] = [title |-> "Processing Failed",
                                 message |-> "No license plates detected"]
            /\ (outputs[c].settled /\ Len(outputs[c].value) > 0
                  /\ outputs[c].value[1][1] = 0) => nav[c] = NoNav

\* one invocation got an array with element 0 = 0 (that stores a confident
\* record) and did not navigate, another got a detection and navigated
C5_Witness ==
    \E c, d \in Calls :
        /\ outputs[c].settled
        /\ Len(outputs[c].value) > 0
        /\ outputs[c].value[1][1] = 0
        /\ Len(outputs[c].value[1]) > 1
        /\ alert[c].message = "No license plates detected"
        /\ nav[d] # NoNav

\* C6: loadTensorflowModel is invoked at most once and every caller gets the
\* same cached instance.
C6_SingleModelLoad ==
    /\ loadCalls <= 1
    /\ \A c, d \in Calls : (m[c] # NoModel /\ m[d] # NoModel) => m[c] = m[d]

----------------------------------------------------------------------------
(* Properties of the decoder *)

\* element 0 is a whole number N >= 0 and the N records it announces are there
WellFormed(out) ==
    /\ Len(out) >= 1
    /\ out[1] >= 0
    /\ out[1] % 10 = 0
    /\ Len(out) >= 1 + 6 * (out[1] \div 10)

\* the slots 0 .. limit - 1 whose confidence is present and above 0.5, in order
ConfidentSlots(out, limit) ==
    SelectSeq([k \in 1..limit |-> k - 1],
              LAMBDA i : Len(out) > 1 + i * 6 + 4 /\ out[1 + i * 6 + 4 + 1] > 5)

\* plate is the record of slot i: its confidence and its four box numbers
IsRecordOfSlot(plate, out, i) ==
    /\ plate.confidence = Num(out[1 + i * 6 + 4 + 1])
    /\ plate.bbox = [x1 |-> Num(out[1 + i * 6 + 1]), y1 |-> Num(out[1 + i * 6 + 2]),
                     x2 |-> Num(out[1 + i * 6 + 3]), y2 |-> Num(out[1 + i * 6 + 4])]

\* C3: for a well-formed array announcing N records, processOutput returns at
\* most min(N, 10) records: exactly those of the first min(N, 10) slots whose
\* confidence is strictly above 0.5, in array order.
C3_DecodesConfidentRecords ==
    (dpc # "input" /\ WellFormed(output)) =>
        LET limit == Min(output[1] \div 10, 10)
            want == ConfidentSlots(output, limit)
        IN  /\ Len(decoded.plates) <= limit
            /\ Len(decoded.plates) = Len(want)
            /\ \A j \in 1..Len(want) : IsRecordOfSlot(decoded.plates[j], output, want[j])

\* 11 records announced and stored: one of the first ten is filtered out, the
\* eleventh is cut off by the cap
C3_Witness ==
    /\ dpc = "decoded"
    /\ WellFormed(output)
    /\ output[1] = 110
    /\ output[1 + 10 * 6 + 4 + 1] > 5
    /\ Len(decoded.plates) = 9

\* the position in plates of the record the reduce is required to return:
\* the first (fromEnd = FALSE) or the last (fromEnd = TRUE) of those with the
\* highest confidence
TopIndex(plates, fromEnd) ==
    LET top == {k \in 1..Len(plates) :
                   \A j \in 1..Len(plates) :
                       plates[j].confidence.val <= plates[k].confidence.val}
    IN  IF fromEnd THEN MaxOf(top) ELSE -MaxOf({-k : k \in top})

\* C4 as stated: the best plate is the one with the highest confidence, and of
\* several with the highest confidence the one encountered first.
C4_TiesResolveToFirst ==
    dpc = "selected" => best[1] = decoded.plates[TopIndex(decoded.plates, FALSE)]

\* C4 as amended: the best plate is the one with the highest confidence, and of
\* several with the highest confidence the one encountered last.
C4_TiesResolveToLast ==
    dpc = "selected" => best[1] = decoded.plates[TopIndex(decoded.plates, TRUE)]

\* three or more candidates, two of them sharing the highest confidence, and a
\* lower one after them
C4_Witness ==
    /\ dpc = "selected"
    /\ Len(decoded.plates) >= 3
    /\ \E j, k \in 1..Len(decoded.plates) :
          /\ j < k
          /\ k < Len(decoded.plates)
          /\ decoded.plates[j].confidence = best[1].confidence
          /\ decoded.plates[k].confidence = best[1].confidence
          /\ decoded.plates[Len(decoded.plates)].confidence # best[1].confidence

\* C10: whatever the length of the array and the count in element 0, the loop
\* ends after at most 10 iterations, no record comes from a slot whose
\* confidence lies past the end of the array, and every slot the capped count
\* covers that is wholly present with confidence above 0.5 yields its record.
C10_ShortArrayIsSafe ==
    dpc # "input" =>
        /\ decoded.i <= 10
        /\ \A j \in 1..Len(decoded.plates) :
              \E i \in 0..9 :
                  /\ Len(output) > 1 + i * 6 + 4
                  /\ IsRecordOfSlot(decoded.plates[j], output, i)
        /\ \A i \in 0..9 :
              (/\ Len(output) >= 1 + i * 6 + 6
               /\ i * 10 < output[1]
               /\ output[1 + i * 6 + 4 + 1] > 5)
              => \E j \in 1..Len(decoded.plates) :
                     IsRecordOfSlot(decoded.plates[j], output, i)

\* the count covers a slot that is cut off before its confidence, and the two
\* records before the cut were still emitted
C10_Witness ==
    /\ dpc = "decoded"
    /\ \E i \in 2..9 :
          /\ Len(output) > 1 + i * 6
          /\ Len(output) <= 1 + i * 6 + 4
          /\ i * 10 < output[1]
    /\ Len(decoded.plates) >= 2

----------------------------------------------------------------------------
(* Properties of the resizer and the tensor converter *)

In01(q) == q.kind = "number" /\ q.den > 0 /\ 0 <= q.num /\ q.num <= q.den

\* C7: the tensor has exactly W * H * 3 elements, each in [0, 1], and the three
\* elements of pixel i are the R, G and B bytes of pixel i of the resized image
\* over 255 (the alpha byte is dropped).
C7_TensorIsNormalizedRgb ==
    ipc.tensor =>
        LET rgba == resizeNearestNeighbor(img, targetW, targetH).data IN
        /\ Len(tensor) = targetW * targetH * 3
        /\ \A p \in 1..Len(tensor) : In01(tensor[p])
        /\ \A i \in 0..(targetW * targetH - 1), ch \in 0..2 :
              tensor[i * 3 + ch + 1] =
                  [kind |-> "number", num |-> rgba[i * 4 + ch + 1], den |-> 255]

\* a tensor of several pixels, resized from an image of another size, holding
\* both 0 and 1
C7_Witness ==
    /\ ipc.tensor
    /\ targetW * targetH >= 4
    /\ targetW # img.width
    /\ targetH # img.height
    /\ \E p, q \in 1..Len(tensor) :
          /\ tensor[p].num = 0
          /\ tensor[q].num = 255

\* C8: resizing to the image's own dimensions returns a pixel-for-pixel copy.
C8_IdentityResizeCopies ==
    (ipc.resized /\ targetW = img.width /\ targetH = img.height) =>
        /\ resized.width = img.width
        /\ resized.height = img.height
        /\ resized.data = img.data

\* an identity resize of an image with several rows and columns of distinct bytes
C8_Witness ==
    /\ ipc.resized
    /\ targetW = img.width
    /\ targetH = img.height
    /\ img.width >= 2
    /\ img.height >= 2
    /\ img.width # img.height
    /\ img.data[1] # img.data[5]

\* C9: every destination pixel samples a source pixel inside the source image:
\* 0 <= srcX < oldW, 0 <= srcY < oldH, the four channel reads lie inside the
\* source buffer, and the destination pixel is a copy of that one source pixel.
C9_SamplesInsideSource ==
    \A x \in 0..(targetW - 1), y \in 0..(targetH - 1) :
        LET srcX == SrcCoord(x, img.width, targetW)
            srcY == SrcCoord(y, img.height, targetH)
            srcIdx == SrcIdx(srcX, srcY, img.width)
        IN  /\ 0 <= srcX
            /\ srcX < img.width
            /\ 0 <= srcY
            /\ srcY < img.height
            /\ 0 <= srcIdx
            /\ srcIdx + 3 < Len(img.data)
            /\ ipc.resized =>
                  \A ch \in 0..3 :
                      resized.data[(y * targetW + x) * 4 + ch + 1] =
                          img.data[(srcY * img.width + srcX) * 4 + ch + 1]

\* a resize that enlarges one dimension and shrinks the other
C9_Witness ==
    /\ ipc.resized
    /\ targetW > img.width
    /\ targetH >= 1
    /\ targetH < img.height
    /\ img.data[1] # img.data[5]

============================================================================
